---- MODULE Spec2Model ----
(***************************************************************************)
(* Location accessor of hdf5-rs (src/hdf5-rs/src/location.rs): name(),     *)
(* filename(), file(), comment(), set_comment() and clear_comment() of a   *)
(* named-location handle, called from several threads, on top of the       *)
(* native library's identifier registry and per-object comment storage.    *)
(* Texts are sequences of bytes; 0 is the C string terminator.             *)
(***************************************************************************)
EXTENDS Integers, Sequences, FiniteSets, TLC

VARIABLES
    lock,       \* owner of the process-wide lock, or NoThread
    handles,    \* wrapper values alive in the program: slot -> identifier (0: no handle)
    refc,       \* native identifier registry: identifier -> reference count
    idObj,      \* native identifier registry: identifier -> object ("none": never issued)
    comment,    \* native per-object comment bytes (<<>>: no comment message)
    hist,       \* history per object: the last successful comment write (or none yet)
    pc,         \* per thread: position inside the operation
    op,         \* per thread: operation being executed
    hnd,        \* per thread: slot of the handle the operation was called on (&self)
    arg,        \* per thread: text given to set_comment
    tmp,        \* per thread: number held between the steps (buffer length, file identifier)
    ret         \* what the step just taken returned: thread, operation, value (NoRet: nothing)

vars == <<lock, handles, refc, idObj, comment, hist, pc, op, hnd, arg, tmp, ret>>

-----------------------------------------------------------------------------
(* Bounds *)

MaxLen == 2
MaxId == 3
MaxHandles == 3

Threads == {"t1", "t2"}
Main == "t1"
NoThread == "nobody"

NUL == 0
Bad == 3
Chars == {1}

Ids == 1..MaxId
Slots == 1..MaxHandles
Objects == {"file", "dset"}

RECURSIVE SeqsUpTo(_, _)
SeqsUpTo(S, n) ==
    IF n = 0 THEN {<<>>}
    ELSE LET shorter == SeqsUpTo(S, n - 1)
         IN shorter \cup {Append(s, c) : s \in {x \in shorter : Len(x) = n - 1}, c \in S}

\* every &str a caller can pass: valid text, possibly with embedded NUL characters
Texts == SeqsUpTo(Chars \cup {NUL}, MaxLen)
ConcTexts == SeqsUpTo({1}, MaxLen) \cup {<<NUL>>}
FairTexts == {<<1>>, <<NUL>>}

-----------------------------------------------------------------------------
(* Values *)

Ok(v) == [k |-> "ok", v |-> v]
Errors == {"h5", "encoding", "decoding", "invalid id"}
Err(e) == [k |-> e, v |-> <<>>]
IsErr(r) == r.k \in Errors
Some(s) == [k |-> "some", v |-> s]
None == [k |-> "nil", v |-> <<>>]
Str(s) == [k |-> "str", v |-> s]
Panic == [k |-> "panic", v |-> <<>>]
NoVal == [k |-> "none", v |-> <<>>]
Unit == <<>>

NullPtr == [null |-> TRUE, bytes |-> <<>>]
Ptr(b) == [null |-> FALSE, bytes |-> b]

HasNul(s) == \E i \in 1..Len(s) : s[i] = NUL

\* C strlen: number of bytes before the first terminator
CStrLen(b) ==
    IF HasNul(b) THEN (CHOOSE i \in 1..Len(b) : b[i] = NUL /\ \A j \in 1..(i - 1) : b[j] # NUL) - 1
    ELSE Len(b)

Min(a, b) == IF a < b THEN a ELSE b

-----------------------------------------------------------------------------
(* String helpers of the crate *)

\* to_cstring: the text plus a terminator, or an error when it has an interior NUL
to_cstring(s) == IF HasNul(s) THEN Err("encoding") ELSE Ok(Ptr(Append(s, NUL)))

\* string_from_cstr: the bytes up to the first terminator, decoded
string_from_cstr(buf) ==
    LET s == SubSeq(buf, 1, CStrLen(buf))
    IN IF \E i \in 1..Len(s) : s[i] = Bad THEN Err("decoding") ELSE Ok(s)

\* h5check: a negative return code of the native library is an error
h5check(rc) == IF rc < 0 THEN Err("h5") ELSE Ok(rc)

-----------------------------------------------------------------------------
(* Native library *)

Valid(id) == id \in Ids /\ refc[id] > 0

FileName == <<2, 1>>
ObjName(o) == IF o = "file" THEN <<1>> ELSE <<>>

\* the C string a query of the native library reports for a valid identifier
NativeStr(f, id) ==
    CASE f = "H5Iget_name" -> ObjName(idObj[id])
      [] f = "H5Fget_name" -> FileName
      [] f = "H5Oget_comment" -> comment[idObj[id]]

\* query with a null buffer: the length of the string, or a negative code
NativeLen(f, id) == IF Valid(id) THEN Len(NativeStr(f, id)) ELSE -1

\* query with a zeroed buffer of `size` bytes: at most size - 1 bytes are copied
NativeFill(f, id, size) ==
    IF ~Valid(id) THEN [rc |-> -1, buf |-> [i \in 1..size |-> NUL]]
    ELSE LET s == NativeStr(f, id)
             n == Min(Len(s), size - 1)
         IN [rc |-> Len(s), buf |-> [i \in 1..size |-> IF i <= n THEN s[i] ELSE NUL]]

\* H5Oset_comment: a null pointer or an empty string removes the comment
H5Oset_comment(id, p) ==
    IF ~Valid(id) THEN [rc |-> -1, comment |-> comment]
    ELSE LET o == idObj[id]
             s == IF p.null THEN <<>> ELSE SubSeq(p.bytes, 1, CStrLen(p.bytes))
         IN [rc |-> 0, comment |-> [comment EXCEPT ![o] = s]]

LiveFileIds == {f \in Ids : refc[f] > 0 /\ idObj[f] = "file"}
UnusedIds == {f \in Ids : idObj[f] = "none"}
FreshId == CHOOSE f \in UnusedIds : \A g \in UnusedIds : f <= g

\* H5Iget_file_id: the identifier of the file holding the object, with one more
\* reference; a new identifier when the file has none in use
H5Iget_file_id(id) ==
    IF ~Valid(id) THEN [rc |-> -1, refc |-> refc, idObj |-> idObj]
    ELSE IF LiveFileIds # {}
    THEN LET f == CHOOSE f \in LiveFileIds : TRUE
         IN [rc |-> f, refc |-> [refc EXCEPT ![f] = @ + 1], idObj |-> idObj]
    ELSE [rc |-> FreshId, refc |-> [refc EXCEPT ![FreshId] = 1],
          idObj |-> [idObj EXCEPT ![FreshId] = "file"]]

-----------------------------------------------------------------------------
(* impl Location *)

Getters == {"name", "filename", "comment"}
Setters == {"set_comment", "clear_comment"}
Ops == Getters \cup Setters \cup {"file"}

self_id(t) == handles[hnd[t]]

\* comment() written by copying name(): it asks for the name
query_of_copied(o) ==
    CASE o = "name" -> "H5Iget_name"
      [] o = "filename" -> "H5Fget_name"
      [] o = "comment" -> "H5Iget_name"

\* the native query each accessor hands to get_h5_str
query_of(o) ==
    CASE o = "name" -> "H5Iget_name"
      [] o = "filename" -> "H5Fget_name"
      [] o = "comment" -> "H5Oget_comment"

\* .unwrap() in place of .unwrap_or_else(..)
unwrap_plain(r) == IF r.k = "ok" THEN Str(r.v) ELSE Panic

\* name(), filename(): .unwrap_or_else(|_| "".to_string())
unwrap_or_empty(r) == IF r.k = "ok" THEN Str(r.v) ELSE Str(<<>>)

\* .ok() alone, the empty string kept
comment_ret_raw(r) == IF r.k = "ok" THEN Some(r.v) ELSE None

\* comment(): .ok() and then the empty string becomes None
comment_ret(r) == IF r.k = "ok" /\ r.v # <<>> THEN Some(r.v) ELSE None

\* the text handed over as it is, with a terminator after it
set_comment_cstr_unchecked(x) == Ok(Ptr(Append(x, NUL)))

\* set_comment(): let comment = to_cstring(comment)?
set_comment_cstr(x) == to_cstring(x)

\* clearing by a removal that fails when there is no comment to remove
clear_comment_call_remove(id) ==
    IF Valid(id) /\ comment[idObj[id]] = <<>> THEN [rc |-> -1, comment |-> comment]
    ELSE H5Oset_comment(id, NullPtr)

\* clear_comment(): the payload is ptr::null_mut()
clear_comment_call(id) == H5Oset_comment(id, NullPtr)

\* the handle's own identifier wrapped again, no reference taken
file_id_call_self(id) == [rc |-> id, refc |-> refc, idObj |-> idObj]

\* file(): H5Iget_file_id(self.id())
file_id_call(id) == H5Iget_file_id(id)

\* the result of the native call dropped
and_ok_ignore(r) == Ok(Unit)

\* set_comment(), clear_comment(): .and(Ok(()))
and_ok(r) == IF r.k = "ok" THEN Ok(Unit) ELSE r

InFlightFile(pcs) == {t \in Threads : op[t] = "file" /\ pc[t] \in pcs}
FreeSlots == {s \in Slots : handles[s] = 0}

\* a return: thread, operation, value, and the history of the object before the step
Returned(t, o, r, was) == [t |-> t, op |-> o, k |-> r.k, v |-> r.v, was |-> was]
NoRet == Returned(NoThread, "none", NoVal, "none")

\* the operation of thread t returns r to its caller
Return(t, r) ==
    /\ ret' = Returned(t, op[t], r, hist[idObj[self_id(t)]][1])
    /\ pc' = [pc EXCEPT ![t] = "idle"]
    /\ op' = [op EXCEPT ![t] = "none"]
    /\ hnd' = [hnd EXCEPT ![t] = 0]
    /\ arg' = [arg EXCEPT ![t] = <<>>]
    /\ tmp' = [tmp EXCEPT ![t] = 0]

\* a caller enters one of the six operations on a handle it holds
Call(t, o, h, x) ==
    /\ pc[t] = "idle"
    /\ handles[h] # 0
    /\ o = "set_comment" \/ x = <<>>
    /\ o = "file" =>
          /\ Cardinality(UnusedIds) > Cardinality(InFlightFile({"acq", "native"}))
          /\ Cardinality(FreeSlots) > Cardinality(InFlightFile({"acq", "native", "fromid"}))
    /\ pc' = [pc EXCEPT ![t] = "acq"]
    /\ op' = [op EXCEPT ![t] = o]
    /\ hnd' = [hnd EXCEPT ![t] = h]
    /\ arg' = [arg EXCEPT ![t] = x]
    /\ ret' = NoRet
    /\ UNCHANGED <<lock, handles, refc, idObj, comment, hist, tmp>>

\* file() calling H5Iget_file_id directly, outside any macro
macro_of_bare_file(o) ==
    CASE o \in Getters -> "h5lock"
      [] o = "file" -> "none"
      [] o \in Setters -> "h5call"

\* comment() calling get_h5_str outside h5lock!
macro_of_bare_comment(o) ==
    CASE o \in {"name", "filename"} -> "h5lock"
      [] o = "comment" -> "none"
      [] o = "file" -> "h5try"
      [] o \in Setters -> "h5call"

\* the macro each operation wraps its native call in
macro_of(o) ==
    CASE o \in Getters -> "h5lock"
      [] o = "file" -> "h5try"
      [] o \in Setters -> "h5call"

\* h5lock!, h5try!, h5call!: the lock is taken before the wrapped expression ...
lock_enter(t) == /\ lock = NoThread
                 /\ lock' = t

Locked(t) == IF macro_of(op[t]) = "none" THEN lock' = lock ELSE lock_enter(t)

\* name(), filename(), comment(), file(), clear_comment() start with the macro
Acquire(t) ==
    /\ pc[t] = "acq"
    /\ op[t] # "set_comment"
    /\ Locked(t)
    /\ pc' = [pc EXCEPT ![t] = IF op[t] \in Getters THEN "size" ELSE "native"]
    /\ ret' = NoRet
    /\ UNCHANGED <<handles, refc, idObj, comment, hist, op, hnd, arg, tmp>>

\* the lock kept when the wrapped expression is an error
lock_exit_leak(t, r) == lock' = IF lock = t /\ ~IsErr(r) THEN NoThread ELSE lock

\* ... and given back when the macro's scope ends, whatever the result r
lock_exit(t, r) == lock' = IF lock = t THEN NoThread ELSE lock

getter_ret(o, r) == IF o = "comment" THEN comment_ret(r) ELSE unwrap_or_empty(r)

\* get_h5_str, first call: null buffer, the answer is the length
Size(t) ==
    /\ pc[t] = "size"
    /\ LET r == h5check(NativeLen(query_of(op[t]), self_id(t)))
       IN IF IsErr(r)
          THEN /\ lock_exit(t, r)
               /\ Return(t, getter_ret(op[t], r))
          ELSE /\ tmp' = [tmp EXCEPT ![t] = 1 + r.v]
               /\ pc' = [pc EXCEPT ![t] = "fill"]
               /\ ret' = NoRet
               /\ UNCHANGED <<lock, op, hnd, arg>>
    /\ UNCHANGED <<handles, refc, idObj, comment, hist>>

\* the text get_h5_str hands back after the second call into a buffer of `size` bytes
FillResult(f, id, size) ==
    LET n == NativeFill(f, id, size)
    IN IF IsErr(h5check(n.rc)) THEN h5check(n.rc) ELSE string_from_cstr(n.buf)

\* get_h5_str, second call: a buffer of that length is filled and decoded; the
\* accessor releases the lock and returns
Fill(t) ==
    /\ pc[t] = "fill"
    /\ LET r == FillResult(query_of(op[t]), self_id(t), tmp[t])
       IN /\ lock_exit(t, r)
          /\ Return(t, getter_ret(op[t], r))
    /\ UNCHANGED <<handles, refc, idObj, comment, hist>>

\* set_comment() converts its text first and returns the error of the conversion
\* without entering h5call!
SetEnter(t) ==
    /\ pc[t] = "acq"
    /\ op[t] = "set_comment"
    /\ IF IsErr(set_comment_cstr(arg[t]))
       THEN /\ Return(t, set_comment_cstr(arg[t]))
            /\ lock' = lock
       ELSE /\ Locked(t)
            /\ pc' = [pc EXCEPT ![t] = "native"]
            /\ ret' = NoRet
            /\ UNCHANGED <<op, hnd, arg, tmp>>
    /\ UNCHANGED <<handles, refc, idObj, comment, hist>>

HistAfter(t) == IF op[t] = "set_comment" THEN <<"set", arg[t]>> ELSE <<"cleared">>

\* set_comment(), clear_comment(): H5Oset_comment under the lock
SetNative(t) ==
    /\ pc[t] = "native"
    /\ op[t] \in Setters
    /\ LET id == self_id(t)
           n == IF op[t] = "set_comment" THEN H5Oset_comment(id, set_comment_cstr(arg[t]).v)
                ELSE clear_comment_call(id)
       IN /\ comment' = n.comment
          /\ hist' = IF n.rc >= 0 THEN [hist EXCEPT ![idObj[id]] = HistAfter(t)]
                     ELSE hist
          /\ lock_exit(t, h5check(n.rc))
          /\ Return(t, and_ok(h5check(n.rc)))
    /\ UNCHANGED <<handles, refc, idObj>>

\* file(): H5Iget_file_id under the lock; h5try! returns early on an error
FileNative(t) ==
    /\ pc[t] = "native"
    /\ op[t] = "file"
    /\ LET n == file_id_call(self_id(t))
           r == h5check(n.rc)
       IN /\ refc' = n.refc
          /\ idObj' = n.idObj
          /\ lock_exit(t, r)
          /\ IF IsErr(r)
             THEN Return(t, r)
             ELSE /\ tmp' = [tmp EXCEPT ![t] = r.v]
                  /\ pc' = [pc EXCEPT ![t] = "fromid"]
                  /\ ret' = NoRet
                  /\ UNCHANGED <<op, hnd, arg>>
    /\ UNCHANGED <<handles, comment, hist>>

\* File::from_id: the identifier is checked under the lock and wrapped in a new handle
FromId(t) ==
    /\ pc[t] = "fromid"
    /\ lock = NoThread
    /\ LET id == tmp[t]
       IN IF Valid(id) /\ idObj[id] = "file"
          THEN LET s == CHOOSE s \in FreeSlots : \A u \in FreeSlots : s <= u
               IN /\ handles' = [handles EXCEPT ![s] = id]
                  /\ Return(t, Ok(<<s>>))
          ELSE /\ handles' = handles
               /\ Return(t, Err("invalid id"))
    /\ UNCHANGED <<lock, refc, idObj, comment, hist>>

Borrowed(h) == \E t \in Threads : pc[t] # "idle" /\ hnd[t] = h

\* a handle goes out of scope: one reference is given back if the identifier is valid
Drop(h) ==
    /\ handles[h] # 0
    /\ ~Borrowed(h)
    /\ lock = NoThread
    /\ refc' = IF Valid(handles[h]) THEN [refc EXCEPT ![handles[h]] = @ - 1] ELSE refc
    /\ handles' = [handles EXCEPT ![h] = 0]
    /\ ret' = NoRet
    /\ UNCHANGED <<lock, idObj, comment, hist, pc, op, hnd, arg, tmp>>

\* the store is closed: every identifier of the store becomes invalid
CloseStore(h) ==
    /\ handles[h] # 0
    /\ Valid(handles[h])
    /\ idObj[handles[h]] = "file"
    /\ lock = NoThread
    /\ refc' = [i \in Ids |-> 0]
    /\ ret' = NoRet
    /\ UNCHANGED <<lock, handles, idObj, comment, hist, pc, op, hnd, arg, tmp>>

-----------------------------------------------------------------------------

Init ==
    /\ lock = NoThread
    /\ handles = [s \in Slots |-> IF s <= 2 THEN s ELSE 0]
    /\ refc = [i \in Ids |-> IF i <= 2 THEN 1 ELSE 0]
    /\ idObj = [i \in Ids |-> IF i = 1 THEN "file" ELSE IF i = 2 THEN "dset" ELSE "none"]
    /\ \E foreign \in BOOLEAN :
          /\ comment = [o \in Objects |-> IF o = "dset" /\ foreign THEN <<Bad>> ELSE <<>>]
          /\ hist = [o \in Objects |-> IF o = "dset" /\ foreign THEN <<"foreign">> ELSE <<"fresh">>]
    /\ pc = [t \in Threads |-> "idle"]
    /\ op = [t \in Threads |-> "none"]
    /\ hnd = [t \in Threads |-> 0]
    /\ arg = [t \in Threads |-> <<>>]
    /\ tmp = [t \in Threads |-> 0]
    /\ ret = NoRet

Step(t) ==
    \/ Acquire(t)
    \/ SetEnter(t)
    \/ Size(t)
    \/ Fill(t)
    \/ SetNative(t)
    \/ FileNative(t)
    \/ FromId(t)

\* one caller, every text, and the rest of the program dropping handles and
\* closing the store
Next ==
    \/ \E o \in Ops, h \in Slots :
          \E x \in (IF o = "set_comment" THEN Texts ELSE {<<>>}) : Call(Main, o, h, x)
    \/ Step(Main)
    \/ \E h \in Slots : Drop(h)
    \/ \E h \in Slots : CloseStore(h)

Spec == Init /\ [][Next]_vars

\* two callers at once on handles that stay in scope
NextConc ==
    \/ \E t \in Threads, o \in Ops, h \in Slots :
          \E x \in (IF o = "set_comment" THEN ConcTexts ELSE {<<>>}) : Call(t, o, h, x)
    \/ \E t \in Threads : Step(t)
    \/ \E h \in Slots : CloseStore(h)

ConcSpec == Init /\ [][NextConc]_vars

\* scheduling: a step that only the thread itself can disable is taken (weak
\* fairness); the lock is granted to every thread that keeps asking (strong fairness)
Fairness ==
    \A t \in Threads :
       /\ WF_vars(Size(t) \/ Fill(t) \/ SetNative(t) \/ FileNative(t))
       /\ SF_vars(Acquire(t) \/ SetEnter(t) \/ FromId(t))

\* two callers at once, a short text and a text that cannot be converted
NextFair ==
    \/ \E t \in Threads, o \in Ops, h \in Slots :
          \E x \in (IF o = "set_comment" THEN FairTexts ELSE {<<>>}) : Call(t, o, h, x)
    \/ \E t \in Threads : Step(t)
    \/ \E h \in Slots : CloseStore(h)

\* a store whose objects were all created by this program
FairInit == Init /\ \A o \in Objects : hist[o] = <<"fresh">>

FairSpec == FairInit /\ [][NextFair]_vars /\ Fairness

-----------------------------------------------------------------------------
(* Properties *)

\* the return event r is thread t returning val from operation o
Is(r, t, o, val) == r.t = t /\ r.op = o /\ r.k = val.k /\ r.v = val.v

ObjOfCall(t) == idObj[self_id(t)]
Returns(t) == pc[t] # "idle" /\ pc'[t] = "idle"
ReturnsFrom(t, o) == Returns(t) /\ op[t] = o

\* C1 as stated: whenever comment() returns on a valid handle whose last successful
\* write was set_comment(X), X being any NUL-free text including the empty one, it
\* returns Some(X).
C1_RoundTripAnyText ==
    [][\A t \in Threads :
          (ReturnsFrom(t, "comment") /\ Valid(self_id(t)) /\ hist[ObjOfCall(t)][1] = "set")
             => Is(ret', t, "comment", Some(hist[ObjOfCall(t)][2]))]_vars

\* C1 amended: whenever comment() returns on a valid handle whose last successful
\* write was set_comment(X), it returns Some(X) when X is not empty and None when
\* X is the empty text.
C1_RoundTrip ==
    [][\A t \in Threads :
          (ReturnsFrom(t, "comment") /\ Valid(self_id(t)) /\ hist[ObjOfCall(t)][1] = "set")
             => LET X == hist[ObjOfCall(t)][2]
                IN Is(ret', t, "comment", IF X = <<>> THEN None ELSE Some(X))]_vars

C1_Witness ==
    /\ Is(ret, Main, "comment", Some(<<1, 1>>))
    /\ \E o \in Objects : hist[o] = <<"set", <<1, 1>>>>

\* C2: set_comment(X) with an embedded NUL in X returns the encoding error from its
\* first step, without taking the lock or reaching H5Oset_comment, and the stored
\* comments are what they were.
C2_NulRejected ==
    [][\A t \in Threads :
          (op[t] = "set_comment" /\ HasNul(arg[t]) /\ pc[t] # pc'[t])
             => /\ Is(ret', t, "set_comment", Err("encoding"))
                /\ pc'[t] = "idle"
                /\ comment' = comment
                /\ lock' = lock]_vars

C2_Witness ==
    /\ Is(ret, Main, "set_comment", Err("encoding"))
    /\ comment["file"] = <<1, 1>>

\* C3: whenever comment() returns for an object that is fresh or whose last
\* successful write was clear_comment(), it returns None.
C3_ClearedIsAbsent ==
    [][\A t \in Threads :
          (ReturnsFrom(t, "comment") /\ hist[ObjOfCall(t)][1] \in {"fresh", "cleared"})
             => Is(ret', t, "comment", None)]_vars

C3_Witness ==
    /\ Is(ret, Main, "comment", None)
    /\ hist["file"][1] = "cleared"
    /\ Valid(1)

\* C4: clear_comment() on a valid handle returns success and leaves the object
\* without a comment; when the last successful write was already clear_comment(),
\* it still returns success and the stored comments do not change.
C4_ClearIdempotent ==
    [][\A t \in Threads :
          (ReturnsFrom(t, "clear_comment") /\ Valid(self_id(t)))
             => /\ Is(ret', t, "clear_comment", Ok(Unit))
                /\ comment'[ObjOfCall(t)] = <<>>
                /\ hist[ObjOfCall(t)][1] = "cleared" => comment' = comment]_vars

C4_Witness ==
    /\ Is(ret, Main, "clear_comment", Ok(Unit))
    /\ ret.was = "cleared"
    /\ hist["file"] = <<"cleared">> /\ hist["dset"] # <<"cleared">>

\* the native query of a getter cannot deliver a text
QueryFails(t) ==
    \/ ~Valid(self_id(t))
    \/ \E i \in 1..Len(NativeStr(query_of(op[t]), self_id(t))) :
          NativeStr(query_of(op[t]), self_id(t))[i] = Bad

\* C5: name(), filename() and comment() return a plain value, never an error or a
\* panic, and the caller does not hold the lock afterwards; when the native query
\* fails (invalid handle, undecodable text) the value is the empty string for
\* name() and filename() and None for comment(), and name() of an anonymous object
\* is the empty string.
C5_Swallow ==
    [][\A t \in Threads :
          (Returns(t) /\ op[t] \in Getters)
             => /\ ret'.t = t /\ ret'.op = op[t]
                /\ ret'.k \in (IF op[t] = "comment" THEN {"some", "nil"} ELSE {"str"})
                /\ lock' # t
                /\ QueryFails(t) => ret'.v = <<>> /\ ret'.k \in {"str", "nil"}
                /\ (op[t] = "name" /\ ObjName(ObjOfCall(t)) = <<>>) => ret'.v = <<>>]_vars

C5_Witness ==
    /\ Is(ret, Main, "filename", Str(<<>>))
    /\ \A i \in Ids : ~Valid(i)

\* C6: an invalid handle stays invalid, and every step of file(), set_comment() or
\* clear_comment() on an invalid handle leaves the stored comments, the registry
\* and the handles as they are; when the step returns, it returns an error.
C6_InvalidPropagates ==
    [][/\ \A h \in Slots :
             (handles[h] # 0 /\ ~Valid(handles[h]) /\ handles'[h] = handles[h])
                => refc'[handles[h]] = 0
       /\ \A t \in Threads :
             (op[t] \in Setters \cup {"file"} /\ pc[t] # pc'[t] /\ ~Valid(self_id(t)))
                => /\ comment' = comment
                   /\ refc' = refc /\ idObj' = idObj
                   /\ handles' = handles
                   /\ pc'[t] = "idle" => ret'.t = t /\ IsErr(ret')]_vars

C6_Witness ==
    /\ Is(ret, Main, "file", Err("h5"))
    /\ \A i \in Ids : ~Valid(i)
    /\ comment["file"] # <<>>

InNative(t) == pc[t] \in {"size", "fill", "native"}

\* C7: a thread that is at a call into the native library holds the lock, and no
\* two threads are at such a call together.
C7_MutualExclusion ==
    /\ \A t \in Threads : InNative(t) => lock = t
    /\ \A t, u \in Threads : (InNative(t) /\ InNative(u)) => t = u

C7_Witness ==
    \E t, u \in Threads :
       /\ t # u
       /\ InNative(t) /\ op[t] = "set_comment"
       /\ pc[u] = "acq" /\ op[u] = "comment" /\ hnd[u] = hnd[t]

\* C8: a thread that is outside the operations, waiting for the lock or between the
\* two locked parts of file() does not hold the lock, and every call that has begun
\* returns (so every wait for the lock ends).
C8_LockReleased ==
    /\ [](\A t \in Threads : pc[t] \in {"idle", "acq", "fromid"} => lock # t)
    /\ \A t \in Threads : (pc[t] # "idle") ~> (pc[t] = "idle")

C8_Witness ==
    /\ IsErr(ret) /\ ret.op = "file"
    /\ lock # ret.t
    /\ \E u \in Threads : u # ret.t /\ pc[u] = "acq"

HandlesOn(id) == {h \in Slots : handles[h] = id}
PendingOn(id) == {t \in Threads : pc[t] = "fromid" /\ tmp[t] = id}

\* every reference of a valid identifier is owned by a handle or by a file() call
\* that has not wrapped it yet
RefCounted ==
    \A id \in Ids : Valid(id) => refc[id] = Cardinality(HandlesOn(id)) + Cardinality(PendingOn(id))

\* C9: the reference count of a valid identifier is the number of its handles;
\* file() puts the file's identifier in a new handle, the identifier of the handle
\* it was called on when that is the store itself; dropping a handle takes exactly
\* one reference from its identifier and none from any other.
C9_FileHandle ==
    /\ []RefCounted
    /\ [][\A t \in Threads :
             (ReturnsFrom(t, "file") /\ ret'.k = "ok")
                => /\ handles[ret'.v[1]] = 0
                   /\ Valid(handles'[ret'.v[1]]) /\ idObj[handles'[ret'.v[1]]] = "file"
                   /\ \A h \in Slots \ {ret'.v[1]} : handles'[h] = handles[h]
                   /\ (Valid(self_id(t)) /\ ObjOfCall(t) = "file")
                         => handles'[ret'.v[1]] = self_id(t)]_vars
    /\ [][\A h \in Slots :
             (handles[h] # 0 /\ handles'[h] = 0 /\ Valid(handles[h]))
                => refc' = [refc EXCEPT ![handles[h]] = @ - 1]]_vars

C9_Witness ==
    /\ Is(ret, Main, "file", Ok(<<3>>))
    /\ handles[1] = 1 /\ handles[3] = 1
    /\ refc[1] = 2

\* C10: between the size call and the fill call of name(), filename() and comment()
\* the handle is still valid and the length obtained is still the length of the
\* text the native library holds, and the text comment() returns is the comment
\* stored when it returns, whole.
C10_SizeThenFillAtomic ==
    /\ [](\A t \in Threads :
             pc[t] = "fill"
                => /\ Valid(self_id(t))
                   /\ tmp[t] = 1 + Len(NativeStr(query_of(op[t]), self_id(t))))
    /\ [][\A t \in Threads :
             ReturnsFrom(t, "comment")
                => IF Valid(self_id(t)) /\ comment[ObjOfCall(t)] # <<>> /\ ~QueryFails(t)
                   THEN Is(ret', t, "comment", Some(comment[ObjOfCall(t)]))
                   ELSE Is(ret', t, "comment", None)]_vars

C10_Witness ==
    \E t, u \in Threads :
       /\ t # u
       /\ pc[t] = "fill" /\ op[t] = "comment" /\ comment[ObjOfCall(t)] = <<1>>
       /\ pc[u] = "acq" /\ op[u] = "set_comment" /\ arg[u] = <<1, 1>> /\ hnd[u] = hnd[t]

====
